---- MODULE Spec2Model ----
(***************************************************************************)
(* Model of lwobj's Wavefront OBJ loader and serializer (src/src/obj.rs):  *)
(* ObjData::load as a line-by-line state machine, ObjData::write as the    *)
(* text it emits, and the reload of that text by the same loader.          *)
(*                                                                         *)
(* Text model.  A string is a sequence of chunks.  A chunk is a token (a   *)
(* maximal run of non-whitespace characters) or one of the whitespace      *)
(* chunks SP and NL.  A token is the sequence of its '/'-separated fields  *)
(* (what split('/') yields), each field a string; SP is <<" ">> and NL is  *)
(* <<"\n">>.  A line is a string that ends with NL.                        *)
(* Indices are kept 0-based as in the code, so element i of a Vec is       *)
(* s[i+1] of the sequence that models it.  Option<T> is a sequence: None   *)
(* is <<>>, Some(x) is <<x>>.                                              *)
(***************************************************************************)
EXTENDS Integers, Sequences, FiniteSets

\* ------------------------------------------------------------------ bounds
\* Longest input, in lines, of the structural specification.
MaxLines == 4
\* Longest input, in lines, of the lexical specification.
MaxLexLines == 3
\* usize::MAX of the modelled build (the width is scaled down).
UsizeMax == 7
\* Most arguments of an f line of the face specification.
MaxFaceArgs == 4
MaxWriteLines == 4
MaxIoLines == 3
MaxTripLines == 5

\* -------------------------------------------------------------- text model
None == <<>>
Some(x) == <<x>>

T(s) == <<s>>
SP == <<" ">>
NL == <<"\n">>

\* Fields whose first character is '#'.
HashWords == {"#", "#c"}

\* Decimal text of the unsigned integers, as to_string() prints them.
DecStr == <<"0", "1", "2", "3", "4", "5", "6", "7", "8", "9">>

\* usize::to_string
UsizeToString(n) == DecStr[n + 1]

\* str::parse::<usize>: None on failure (not a number, or out of range).
ParseUsize(s) ==
    IF \E n \in 0..UsizeMax : DecStr[n + 1] = s
    THEN Some(CHOOSE n \in 0..UsizeMax : DecStr[n + 1] = s)
    ELSE IF s = "+1" THEN Some(1)
    ELSE IF s = "01" THEN Some(1)
    ELSE None

\* The f32 that is not a number: parse::<f32> accepts "NaN".
NaN == 99

\* str::parse::<f32> of one token: None on failure.  A float value is
\* modelled by ten times its value.
ParseF32(tok) ==
    IF Len(tok) # 1 THEN None
    ELSE CASE tok[1] = "0" -> Some(0)
           [] tok[1] = "0.5" -> Some(5)
           [] tok[1] = "1" -> Some(10)
           [] tok[1] = "1." -> Some(10)
           [] tok[1] = "1.00" -> Some(10)
           [] tok[1] = "2" -> Some(20)
           [] tok[1] = "3" -> Some(30)
           [] tok[1] = "NaN" -> Some(NaN)
           [] OTHER -> None

\* Display of an f32 ("{}"): the shortest text that parses back.
FormatF32(x) ==
    CASE x = 0 -> T("0")
      [] x = 5 -> T("0.5")
      [] x = 10 -> T("1")
      [] x = 20 -> T("2")
      [] x = 30 -> T("3")
      [] x = NaN -> T("NaN")

\* The float literals 1.0 and 0. of the code.
One == 10
Zero == 0

\* val-1 and val+1 on usize when overflow checks are off (wrapping).
WrapSub1(val) == (val + UsizeMax) % (UsizeMax + 1)
WrapAdd1(val) == (val + 1) % (UsizeMax + 1)

\* buf.chars().next().unwrap() == '#'
BufIsComment(buf) == buf[1][1] \in HashWords

IsSpace(c) == c = SP \/ c = NL

\* str::split_whitespace
SplitWhitespace(s) == SelectSeq(s, LAMBDA c : ~IsSpace(c))

\* ------------------------------------------------------------------- load
ObjDataNew ==
    [vertices |-> <<>>, normals |-> <<>>, texcoords |-> <<>>,
     faces |-> <<>>, objects |-> <<>>, groups |-> <<>>]

GroupNew(n) == [name |-> n, indexes |-> {}]
ObjectNew(n) == [name |-> n, primitives |-> <<>>]

Running == [kind |-> "Running", line |-> 0]
Ok == [kind |-> "Ok", line |-> 0]
Panic == [kind |-> "Panic", line |-> 0]
Err(kind, nb) == [kind |-> kind, line |-> nb]
\* LoadingError::Io(err): it carries the io::Error, no line number.
Io == [kind |-> "Io", line |-> 0]

\* The locals of load before the first read_line.
LoadInit ==
    [data |-> ObjDataNew, buf |-> <<>>, nb |-> 0, actif_groups |-> <<>>,
     obj |-> None, result |-> Running]

Fail(st, kind) == [st EXCEPT !.result = Err(kind, st.nb)]

\* parse::<f32>(args, nb): None when some argument does not parse.
parse(args) ==
    IF \E i \in 1..Len(args) : ParseF32(args[i]) = None
    THEN None
    ELSE Some([i \in 1..Len(args) |-> ParseF32(args[i])[1]])

\* DirV with the default weight 0.0 instead of 1.0.
DirVDefaultZero(st, args) ==
    LET p == parse(args) IN
    IF p = None THEN Fail(st, "Parse")
    ELSE LET values == p[1] IN
         IF Len(values) = 4
         THEN [st EXCEPT !.data.vertices =
                  Append(@, <<values[1], values[2], values[3], values[4]>>)]
         ELSE IF Len(values) = 3
         THEN [st EXCEPT !.data.vertices =
                  Append(@, <<values[1], values[2], values[3], Zero>>)]
         ELSE Fail(st, "WrongNumberOfArguments")

DirV(st, args) ==
    LET p == parse(args) IN
    IF p = None THEN Fail(st, "Parse")
    ELSE LET values == p[1] IN
         IF Len(values) = 4
         THEN [st EXCEPT !.data.vertices =
                  Append(@, <<values[1], values[2], values[3], values[4]>>)]
         ELSE IF Len(values) = 3
         THEN [st EXCEPT !.data.vertices =
                  Append(@, <<values[1], values[2], values[3], One>>)]
         ELSE Fail(st, "WrongNumberOfArguments")

\* DirVn checking the number of arguments before parsing them.
DirVnCountFirst(st, args) ==
    IF Len(args) # 3 THEN Fail(st, "WrongNumberOfArguments")
    ELSE LET p == parse(args) IN
         IF p = None THEN Fail(st, "Parse")
         ELSE [st EXCEPT !.data.normals =
                  Append(@, <<p[1][1], p[1][2], p[1][3]>>)]

DirVn(st, args) ==
    LET p == parse(args) IN
    IF p = None THEN Fail(st, "Parse")
    ELSE LET values == p[1] IN
         IF Len(values) = 3
         THEN [st EXCEPT !.data.normals =
                  Append(@, <<values[1], values[2], values[3]>>)]
         ELSE Fail(st, "WrongNumberOfArguments")

DirVt(st, args) ==
    LET p == parse(args) IN
    IF p = None THEN Fail(st, "Parse")
    ELSE LET values == p[1] IN
         IF Len(values) = 3
         THEN [st EXCEPT !.data.texcoords =
                  Append(@, <<values[1], values[2], values[3]>>)]
         ELSE IF Len(values) = 2
         THEN [st EXCEPT !.data.texcoords =
                  Append(@, <<values[1], values[2], Zero>>)]
         ELSE IF Len(values) = 1
         THEN [st EXCEPT !.data.texcoords =
                  Append(@, <<values[1], Zero, Zero>>)]
         ELSE Fail(st, "WrongNumberOfArguments")

\* One optional slash-field of a face argument (lines 180-193): None when
\* the field fails to parse, Some(val-1) otherwise.
OptRef(field) ==
    LET p == ParseUsize(field) IN
    IF p = None THEN None ELSE Some(WrapSub1(p[1]))

\* val-1 overflows in this field (the parsed value is 0).
Underflows(field) == ParseUsize(field) = Some(0)

\* One argument of an f line (the body of `for arg in args`): the error kind
\* it returns ("" when none) and the vertex-reference it pushes.
FaceArg(index, checks) ==
    IF Len(index) = 0 \/ Len(index) > 3
    THEN [err |-> "WrongNumberOfArguments", ref |-> <<>>]
    ELSE IF ParseUsize(index[1]) = None
    THEN [err |-> "Parse", ref |-> <<>>]
    ELSE IF checks /\ \E k \in 1..Len(index) : Underflows(index[k])
    THEN [err |-> "Panic", ref |-> <<>>]
    ELSE [err |-> "",
          ref |-> <<WrapSub1(ParseUsize(index[1])[1]),
                    IF Len(index) >= 2 THEN OptRef(index[2]) ELSE None,
                    IF Len(index) = 3 THEN OptRef(index[3]) ELSE None>>]

RECURSIVE FaceVec(_, _, _)
\* The loop `for arg in args` of the f directive, left to right, stopping
\* at the first argument that fails.
FaceVec(args, vec, checks) ==
    IF args = <<>> THEN [err |-> "", vec |-> vec]
    ELSE LET a == FaceArg(Head(args), checks) IN
         IF a.err # "" THEN [err |-> a.err, vec |-> vec]
         ELSE FaceVec(Tail(args), Append(vec, a.ref), checks)

\* data.groups[*g].indexes.insert(face) for every g of actif_groups.
InsertActif(groups, actif_groups, face) ==
    [j \in 1..Len(groups) |->
        IF \E k \in 1..Len(actif_groups) : actif_groups[k] = j - 1
        THEN [groups[j] EXCEPT !.indexes = @ \cup {face}]
        ELSE groups[j]]

\* EnsureObject without the obj.is_none() test: one unnamed object per face.
EnsureObjectAlways(st) ==
    [st EXCEPT !.data.objects = Append(@, ObjectNew(<<>>)),
               !.obj = Some(Len(st.data.objects))]

\* The lazily created unnamed object of lines 197-200.
EnsureObject(st) ==
    IF st.obj = None
    THEN [st EXCEPT !.data.objects = Append(@, ObjectNew(<<>>)),
                    !.obj = Some(Len(st.data.objects))]
    ELSE st

\* DirF pushing faces.len() instead of faces.len()-1 to the open object.
DirFOffByOne(st, args, checks) ==
    IF Len(args) < 3 THEN Fail(st, "WrongNumberOfArguments")
    ELSE LET r == FaceVec(args, <<>>, checks) IN
         IF r.err = "Panic" THEN [st EXCEPT !.result = Panic]
         ELSE IF r.err # "" THEN Fail(st, r.err)
         ELSE LET s1 == [st EXCEPT !.data.faces = Append(@, r.vec)]
                  s2 == EnsureObject(s1)
                  face == Len(s2.data.faces) - 1
              IN [s2 EXCEPT
                    !.data.objects[s2.obj[1] + 1].primitives =
                        Append(@, face + 1),
                    !.data.groups = InsertActif(@, s2.actif_groups, face)]

DirF(st, args, checks) ==
    IF Len(args) < 3 THEN Fail(st, "WrongNumberOfArguments")
    ELSE LET r == FaceVec(args, <<>>, checks) IN
         IF r.err = "Panic" THEN [st EXCEPT !.result = Panic]
         ELSE IF r.err # "" THEN Fail(st, r.err)
         ELSE LET s1 == [st EXCEPT !.data.faces = Append(@, r.vec)]
                  s2 == EnsureObject(s1)
                  face == Len(s2.data.faces) - 1
              IN [s2 EXCEPT
                    !.data.objects[s2.obj[1] + 1].primitives = Append(@, face),
                    !.data.groups = InsertActif(@, s2.actif_groups, face)]

\* JoinSpaces that keeps the first argument only.
JoinSpacesFirstOnly(args) == <<args[1]>>

RECURSIVE JoinSpaces(_)
\* The name built by lines 210-216: the arguments with " " between them.
JoinSpaces(args) ==
    IF Len(args) = 1 THEN <<args[1]>>
    ELSE <<args[1], SP>> \o JoinSpaces(Tail(args))

\* DirO that opens again the object that has the name, when there is one.
DirOReopens(st, args) ==
    IF Len(args) = 0 THEN Fail(st, "WrongNumberOfArguments")
    ELSE LET same == {j \in 1..Len(st.data.objects) :
                        st.data.objects[j].name = JoinSpaces(args)}
         IN IF same # {}
            THEN [st EXCEPT !.obj = Some((CHOOSE j \in same : TRUE) - 1)]
            ELSE [st EXCEPT
                    !.data.objects = Append(@, ObjectNew(JoinSpaces(args))),
                    !.obj = Some(Len(st.data.objects))]

\* DirO that empties the active groups when the object opens.
DirOClearsGroups(st, args) ==
    IF Len(args) = 0 THEN Fail(st, "WrongNumberOfArguments")
    ELSE [st EXCEPT !.data.objects = Append(@, ObjectNew(JoinSpaces(args))),
                    !.obj = Some(Len(st.data.objects)),
                    !.actif_groups = <<>>]

\* DirO that appends the object without opening it.
DirOKeepOpen(st, args) ==
    IF Len(args) = 0 THEN Fail(st, "WrongNumberOfArguments")
    ELSE [st EXCEPT !.data.objects = Append(@, ObjectNew(JoinSpaces(args)))]

DirO(st, args) ==
    IF Len(args) = 0 THEN Fail(st, "WrongNumberOfArguments")
    ELSE [st EXCEPT !.data.objects = Append(@, ObjectNew(JoinSpaces(args))),
                    !.obj = Some(Len(st.data.objects))]

\* The indices of the groups named arg, in list order (lines 224-229).
Matching(groups, arg) ==
    SelectSeq([j \in 1..Len(groups) |-> j - 1],
              LAMBDA i : groups[i + 1].name = arg)

\* GroupArg without the lookup by name: every argument creates a group.
GroupArgNoLookup(st, arg) ==
    [st EXCEPT !.data.groups = Append(@, GroupNew(arg)),
               !.actif_groups = Append(@, Len(st.data.groups))]

\* One argument of a g line (the body of `for arg in args`, lines 223-233).
GroupArg(st, arg) ==
    LET found == Matching(st.data.groups, arg) IN
    IF found # <<>>
    THEN [st EXCEPT !.actif_groups = @ \o found]
    ELSE [st EXCEPT !.data.groups = Append(@, GroupNew(arg)),
                    !.actif_groups = Append(@, Len(st.data.groups))]

RECURSIVE GroupArgs(_, _)
GroupArgs(st, args) ==
    IF args = <<>> THEN st
    ELSE GroupArgs(GroupArg(st, Head(args)), Tail(args))

\* DirG that leaves the active groups alone when the line has no argument.
DirGBareKeeps(st, args) ==
    IF args = <<>> THEN st
    ELSE GroupArgs([st EXCEPT !.actif_groups = <<>>], args)

\* DirG without actif_groups.clear().
DirGKeepActive(st, args) == GroupArgs(st, args)

DirG(st, args) == GroupArgs([st EXCEPT !.actif_groups = <<>>], args)

\* Dispatch that ignores a line with an unknown identifier.
DispatchIgnoreUnknown(st, identifier, args, checks) ==
    CASE identifier = T("v") -> DirV(st, args)
      [] identifier = T("vn") -> DirVn(st, args)
      [] identifier = T("vt") -> DirVt(st, args)
      [] identifier = T("s") -> st
      [] identifier = T("f") -> DirF(st, args, checks)
      [] identifier = T("o") -> DirO(st, args)
      [] identifier = T("g") -> DirG(st, args)
      [] OTHER -> st

\* match identifier.unwrap() { ... } of lines 134-237.
Dispatch(st, identifier, args, checks) ==
    CASE identifier = T("v") -> DirV(st, args)
      [] identifier = T("vn") -> DirVn(st, args)
      [] identifier = T("vt") -> DirVt(st, args)
      [] identifier = T("s") -> st
      [] identifier = T("f") -> DirF(st, args, checks)
      [] identifier = T("o") -> DirO(st, args)
      [] identifier = T("g") -> DirG(st, args)
      [] OTHER -> Fail(st, "InvalidLine")

\* nb += 1; buf.clear(); of lines 239-240.
EndOfLine(st) == [st EXCEPT !.nb = @ + 1, !.buf = <<>>]

\* ProcessLine with nb += 1 inside the `if`: a comment line is not counted.
ProcessLineSkipComment(st, line, checks) ==
    LET s1 == [st EXCEPT !.buf = @ \o line] IN
    IF ~BufIsComment(s1.buf)
    THEN LET toks == SplitWhitespace(s1.buf) IN
         IF toks = <<>> THEN s1
         ELSE LET r == Dispatch(s1, Head(toks), Tail(toks), checks) IN
              IF r.result # Running THEN r ELSE EndOfLine(r)
    ELSE [s1 EXCEPT !.buf = <<>>]

\* One iteration of the while loop of load: read_line appends `line` to buf.
ProcessLine(st, line, checks) ==
    LET s1 == [st EXCEPT !.buf = @ \o line] IN
    IF ~BufIsComment(s1.buf)
    THEN LET toks == SplitWhitespace(s1.buf) IN
         IF toks = <<>> THEN s1
         ELSE LET r == Dispatch(s1, Head(toks), Tail(toks), checks) IN
              IF r.result # Running THEN r ELSE EndOfLine(r)
    ELSE EndOfLine(s1)

\* read_line returns 0: return Ok(data).
Eof(st) == [st EXCEPT !.result = Ok]

\* The value load returns: Some(scene) on Ok, None on an error.
Returned(st) == IF st.result = Ok THEN Some(st.data) ELSE None

RECURSIVE LoadText(_, _, _)
\* load on a whole text, given as the sequence of its lines.
LoadText(st, lines, checks) ==
    IF st.result # Running THEN st
    ELSE IF lines = <<>> THEN Eof(st)
    ELSE LoadText(ProcessLine(st, Head(lines), checks), Tail(lines), checks)

\* ------------------------------------------------------------------ write
RECURSIVE FloatLines(_, _)
\* One line `kw x y z ..\n` per tuple of floats (lines 264-279).
FloatLines(kw, tuples) ==
    IF tuples = <<>> THEN <<>>
    ELSE LET t == Head(tuples)
             RECURSIVE Fields(_)
             Fields(k) == IF k > Len(t) THEN <<>>
                          ELSE <<SP, FormatF32(t[k])>> \o Fields(k + 1)
         IN <<T(kw)>> \o Fields(1) \o <<NL>> \o FloatLines(kw, Tail(tuples))

\* The indices of the groups that contain face i, in list order (289-294).
GroupsOf(groups, i) ==
    SelectSeq([j \in 1..Len(groups) |-> j - 1],
              LAMBDA j : i \in groups[j + 1].indexes)

RECURSIVE GroupNames(_, _)
\* " name" for every group of actif_groups (lines 298-301).
GroupNames(groups, actif_groups) ==
    IF actif_groups = <<>> THEN <<>>
    ELSE <<SP, groups[Head(actif_groups) + 1].name>>
         \o GroupNames(groups, Tail(actif_groups))

\* val+1 overflows in this vertex-reference.
RefOverflows(ref) ==
    \/ ref[1] = UsizeMax
    \/ ref[2] = Some(UsizeMax)
    \/ ref[3] = Some(UsizeMax)

\* FaceArgText printing the normal before the texcoord.
FaceArgTextSwapped(ref) ==
    <<SP, <<UsizeToString(WrapAdd1(ref[1])),
            IF ref[3] = None THEN "" ELSE UsizeToString(WrapAdd1(ref[3][1])),
            IF ref[2] = None THEN "" ELSE UsizeToString(WrapAdd1(ref[2][1]))>>>>

\* FaceArgText printing v instead of v+1.
FaceArgTextNoRebias(ref) ==
    <<SP, <<UsizeToString(ref[1]),
            IF ref[2] = None THEN "" ELSE UsizeToString(WrapAdd1(ref[2][1])),
            IF ref[3] = None THEN "" ELSE UsizeToString(WrapAdd1(ref[3][1]))>>>>

\* format!(" {}/{}/{}", v+1, vt_str, vn_str) of lines 306-316.
FaceArgText(ref) ==
    <<SP, <<UsizeToString(WrapAdd1(ref[1])),
            IF ref[2] = None THEN "" ELSE UsizeToString(WrapAdd1(ref[2][1])),
            IF ref[3] = None THEN "" ELSE UsizeToString(WrapAdd1(ref[3][1]))>>>>

RECURSIVE FaceArgsText(_, _, _)
\* The loop over the vertex-references of one face: w.out grows, and
\* w.result becomes Panic when an index overflows under overflow checks.
FaceArgsText(w, refs, checks) ==
    IF refs = <<>> THEN w
    ELSE IF checks /\ RefOverflows(Head(refs))
    THEN [w EXCEPT !.result = Panic]
    ELSE FaceArgsText([w EXCEPT !.out = @ \o FaceArgText(Head(refs))],
                      Tail(refs), checks)

\* The body of `for i in &o.primitives` (lines 289-318).
WriteFace(self, w, i, checks) ==
    LET groups == GroupsOf(self.groups, i)
        w1 == IF w.actif_groups # groups
              THEN [w EXCEPT !.actif_groups = groups,
                             !.out = @ \o <<T("g")>>
                                       \o GroupNames(self.groups, groups)
                                       \o <<NL>>]
              ELSE w
        w2 == FaceArgsText([w1 EXCEPT !.out = @ \o <<T("f")>>],
                           self.faces[i + 1], checks)
    IN IF w2.result # Running THEN w2
       ELSE [w2 EXCEPT !.out = @ \o <<NL>>]

RECURSIVE WriteFaces(_, _, _, _)
WriteFaces(self, w, primitives, checks) ==
    IF primitives = <<>> \/ w.result # Running THEN w
    ELSE WriteFaces(self, WriteFace(self, w, Head(primitives), checks),
                    Tail(primitives), checks)

\* WriteObject that empties the active groups when an object starts.
WriteObjectResetsActive(self, w, o, checks) ==
    LET w1 == IF o.name # <<>>
              THEN [w EXCEPT !.out = @ \o <<T("o"), SP>> \o o.name \o <<NL>>,
                             !.actif_groups = <<>>]
              ELSE [w EXCEPT !.actif_groups = <<>>]
    IN WriteFaces(self, w1, o.primitives, checks)

\* WriteObject that writes the o line of an object without a name too.
WriteObjectAlwaysNamed(self, w, o, checks) ==
    WriteFaces(self, [w EXCEPT !.out = @ \o <<T("o"), SP>> \o o.name \o <<NL>>],
               o.primitives, checks)

\* The body of `for o in &self.objects` (lines 284-319).
WriteObject(self, w, o, checks) ==
    LET w1 == IF o.name # <<>>
              THEN [w EXCEPT !.out = @ \o <<T("o"), SP>> \o o.name \o <<NL>>]
              ELSE w
    IN WriteFaces(self, w1, o.primitives, checks)

RECURSIVE WriteObjects(_, _, _, _)
WriteObjects(self, w, objects, checks) ==
    IF objects = <<>> \/ w.result # Running THEN w
    ELSE WriteObjects(self, WriteObject(self, w, Head(objects), checks),
                      Tail(objects), checks)

\* Write that emits the normals before the vertices.
WriteNormalsFirst(self, checks) ==
    LET w0 == [out |-> FloatLines("vn", self.normals)
                       \o FloatLines("v", self.vertices)
                       \o FloatLines("vt", self.texcoords),
               actif_groups |-> <<>>,
               result |-> Running]
        w == WriteObjects(self, w0, self.objects, checks)
    IN IF w.result = Running THEN [w EXCEPT !.result = Ok] ELSE w

\* ObjData::write: the text emitted and the result.
Write(self, checks) ==
    LET w0 == [out |-> FloatLines("v", self.vertices)
                       \o FloatLines("vn", self.normals)
                       \o FloatLines("vt", self.texcoords),
               actif_groups |-> <<>>,
               result |-> Running]
        w == WriteObjects(self, w0, self.objects, checks)
    IN IF w.result = Running THEN [w EXCEPT !.result = Ok] ELSE w

RECURSIVE ReadLines(_, _)
\* BufRead::read_line, repeated: the lines of a text, each up to and
\* including its NL (`cur` is the line being collected).
ReadLines(text, cur) ==
    IF text = <<>> THEN (IF cur = <<>> THEN <<>> ELSE <<cur>>)
    ELSE IF Head(text) = NL
    THEN <<Append(cur, NL)>> \o ReadLines(Tail(text), <<>>)
    ELSE ReadLines(Tail(text), Append(cur, Head(text)))

\* ---------------------------------------------------------- state machine
VARIABLES
    overflow_checks,  \* the build panics on integer overflow (debug) or wraps
    input,            \* the lines read_line has returned so far
    ld,               \* the locals of the running load, and its result
    written,          \* None, or Some(the result of write on the loaded scene)
    reload            \* None, or Some(the load of the written text)

vars == <<overflow_checks, input, ld, written, reload>>

RECURSIVE TextLine(_)
\* The line that holds the given tokens, separated by single spaces.
TextLine(toks) ==
    IF toks = <<>> THEN <<NL>>
    ELSE IF Len(toks) = 1 THEN <<toks[1], NL>>
    ELSE <<toks[1], SP>> \o TextLine(Tail(toks))

\* Input alphabet of the structural specification: f, o, g and v lines.
StructLines ==
    { TextLine(<<T("f"), T("1"), T("2"), T("3")>>),
      TextLine(<<T("f"), <<"2", "", "1">>, <<"1", "x">>, <<"+1", "2", "">>,
                 <<"3", "1", "2">>>>),
      TextLine(<<T("f"), T("0"), <<"1", "0", "8">>, T("7")>>),
      TextLine(<<T("o"), T("A")>>),
      TextLine(<<T("o"), T("A"), T("B")>>),
      TextLine(<<T("g")>>),
      TextLine(<<T("g"), T("a")>>),
      TextLine(<<T("g"), T("b")>>),
      TextLine(<<T("g"), T("a"), T("b")>>),
      TextLine(<<T("g"), T("a"), T("a")>>),
      TextLine(<<T("v"), T("1."), T("0.5"), T("2")>>) }

\* Input alphabet of the lexical specification: blank lines, comments, the
\* numeric directives with every argument count, s, and malformed lines.
LexLines ==
    { <<NL>>,
      <<SP, NL>>,
      <<T("#"), SP, T("c"), NL>>,
      TextLine(<<T("v")>>),
      TextLine(<<T("v"), T("1"), T("1")>>),
      TextLine(<<T("v"), T("1."), T("0.5"), T("2")>>),
      TextLine(<<T("v"), T("1"), T("2"), T("3"), T("0.5")>>),
      TextLine(<<T("v"), T("1"), T("1"), T("1"), T("1"), T("1")>>),
      TextLine(<<T("vn")>>),
      TextLine(<<T("vn"), T("1"), T("1")>>),
      TextLine(<<T("vn"), T("0"), T("1.00"), T("3")>>),
      TextLine(<<T("vn"), T("1"), T("1"), T("1"), T("1")>>),
      TextLine(<<T("vt")>>),
      TextLine(<<T("vt"), T("0.5")>>),
      TextLine(<<T("vt"), T("0.5"), T("1")>>),
      TextLine(<<T("vt"), T("0.5"), T("1"), T("2")>>),
      TextLine(<<T("vt"), T("1"), T("1"), T("1"), T("1")>>),
      TextLine(<<T("v"), T("1"), T("-1d"), T("1")>>),
      TextLine(<<T("vn"), T("-1d")>>),
      TextLine(<<T("vt"), T("1"), T("-1d")>>),
      TextLine(<<T("az"), T("1")>>),
      TextLine(<<T("az")>>),
      TextLine(<<T("vv"), T("-1d"), T("1")>>),
      TextLine(<<<<"f", "1">>, T("1"), T("2"), T("3")>>),
      TextLine(<<T("s"), T("1")>>),
      TextLine(<<T("o")>>),
      TextLine(<<T("o"), T("A")>>),
      <<T("o"), SP, T("A"), SP, SP, T("B"), NL>>,
      TextLine(<<T("g"), T("a")>>),
      TextLine(<<T("f"), T("1"), T("2")>>),
      TextLine(<<T("f"), T("1"), T("2"), T("3")>>) }

Init ==
    /\ overflow_checks \in BOOLEAN
    /\ input = <<>>
    /\ ld = LoadInit
    /\ written = None
    /\ reload = None

\* read_line returns `line`; one iteration of the loop of load.
LoadLine(line) ==
    /\ ld.result = Running
    /\ ld' = ProcessLine(ld, line, overflow_checks)
    /\ input' = Append(input, line)
    /\ UNCHANGED <<overflow_checks, written, reload>>

LoadStructLine ==
    /\ Len(input) < MaxLines
    /\ \E line \in StructLines : LoadLine(line)

\* read_line returns 0: load returns Ok(data).
LoadEof ==
    /\ ld.result = Running
    /\ ld' = Eof(ld)
    /\ UNCHANGED <<overflow_checks, input, written, reload>>

\* data.write(&mut output) on the scene load returned.
WriteScene ==
    /\ Returned(ld) # None
    /\ written = None
    /\ written' = Some(Write(Returned(ld)[1], overflow_checks))
    /\ UNCHANGED <<overflow_checks, input, ld, reload>>

\* ObjData::load on the text write produced (read_write_read).
Reload ==
    /\ written # None
    /\ written[1].result = Ok
    /\ reload = None
    /\ reload' = Some(LoadText(LoadInit, ReadLines(written[1].out, <<>>),
                               overflow_checks))
    /\ UNCHANGED <<overflow_checks, input, ld, written>>

LoadLexLine ==
    /\ Len(input) < MaxLexLines
    /\ \E line \in LexLines : LoadLine(line)

Next == LoadStructLine \/ LoadEof \/ WriteScene \/ Reload

\* Loads of f, o, g, v, vn, vt lines, each followed by write and reload.
Spec == Init /\ [][Next]_vars

NextLex == LoadLexLine \/ LoadEof \/ WriteScene \/ Reload

\* Loads of blank, comment, numeric and malformed lines.
SpecLex == Init /\ [][NextLex]_vars

\* The arguments the f lines of the face specification are made of.
FaceToks ==
    { T("1"), T("0"), T("x"), T("9"),
      <<"2", "", "1">>, <<"1", "x">>, <<"+1", "2", "">>, <<"3", "0", "9">>,
      <<"1", "2", "3", "4">>, <<"x", "", "", "">> }

\* Input alphabet of the face specification: the f lines with up to
\* MaxFaceArgs arguments.
FaceLines ==
    { TextLine(<<T("f")>> \o args) :
        args \in UNION {[1..n -> FaceToks] : n \in 0..MaxFaceArgs} }

\* The lines that may come before the f line of the face specification.
PrefixLines ==
    { <<NL>>, TextLine(<<T("o"), T("A")>>), TextLine(<<T("g"), T("a")>>) }

LoadPrefixLine ==
    /\ input = <<>>
    /\ \E line \in PrefixLines : LoadLine(line)

LoadFaceLine ==
    /\ \A k \in 1..Len(input) : input[k] \in PrefixLines
    /\ \E line \in FaceLines : LoadLine(line)

NextFace == LoadPrefixLine \/ LoadFaceLine \/ LoadEof \/ WriteScene \/ Reload

\* Loads of one f line, whatever its arguments, after at most one other line.
SpecFace == Init /\ [][NextFace]_vars

\* Input alphabet of the write specification: two v lines, a vn line, a vt
\* line, two f lines, an o line and a g line.
WriteLines ==
    { TextLine(<<T("v"), T("1."), T("0.5"), T("2")>>),
      TextLine(<<T("v"), T("1"), T("2"), T("3"), T("0.5")>>),
      TextLine(<<T("vn"), T("0"), T("1.00"), T("3")>>),
      TextLine(<<T("vt"), T("0.5"), T("1")>>),
      TextLine(<<T("f"), T("1"), T("2"), T("3")>>),
      TextLine(<<T("f"), <<"3", "1", "2">>, T("2"), <<"1", "", "1">>>>),
      TextLine(<<T("o"), T("A")>>),
      TextLine(<<T("g"), T("a")>>) }

LoadWriteLine ==
    /\ Len(input) < MaxWriteLines
    /\ \E line \in WriteLines : LoadLine(line)

NextWrite == LoadWriteLine \/ LoadEof \/ WriteScene \/ Reload

\* Loads of v, vn, vt, f, o and g lines in any order, then write and reload.
SpecWrite == Init /\ [][NextWrite]_vars

\* Input alphabet of the round trip specification: a v line with a NaN, two
\* f lines, an o line and four g lines.
TripLines ==
    { TextLine(<<T("v"), T("NaN"), T("0.5"), T("2")>>),
      TextLine(<<T("f"), T("1"), T("2"), T("3")>>),
      TextLine(<<T("f"), T("0"), <<"1", "0", "7">>, T("7")>>),
      TextLine(<<T("o"), T("A")>>),
      TextLine(<<T("g"), T("a")>>),
      TextLine(<<T("g"), T("b")>>),
      TextLine(<<T("g"), T("a"), T("b")>>) }

LoadTripLine ==
    /\ Len(input) < MaxTripLines
    /\ \E line \in TripLines : LoadLine(line)

NextTrip == LoadTripLine \/ LoadEof \/ WriteScene \/ Reload

\* Loads of up to MaxTripLines lines, then write and reload.
SpecTrip == Init /\ [][NextTrip]_vars

\* ------------------------------------------------------------ I/O errors
\* What read_line returns when the line source fails: an io::Error, no line.
IoError == <<<<"io::Error">>>>

\* ReadLineErr that takes the error for the end of the text.
ReadLineErrAsEof(st) == [st EXCEPT !.result = Ok]

\* try!(input.read_line(&mut buf)) on Err: load returns Err(Io(err)).
ReadLineErr(st) == [st EXCEPT !.result = Io]

RECURSIVE Flatten(_)
\* The bytes of a sequence of write_all calls, one after the other.
Flatten(calls) ==
    IF calls = <<>> THEN <<>> ELSE Head(calls) \o Flatten(Tail(calls))

\* The write_all calls that emit one line: a v, vn, vt or o line is one call
\* (format! of the line); a g line is "g", then " " and the name per group,
\* then "\n"; an f line is "f", then " v/vt/vn" per vertex-reference, then
\* "\n" (the last line has no "\n" when write panicked inside it).
LineCalls(line) ==
    IF line[1] = T("g") THEN [k \in 1..Len(line) |-> <<line[k]>>]
    ELSE IF line[1] = T("f")
    THEN <<<<line[1]>>>>
         \o [j \in 1..((Len(line) - 1) \div 2) |->
                <<line[2 * j], line[2 * j + 1]>>]
         \o (IF Len(line) % 2 = 0 THEN <<<<line[Len(line)]>>>> ELSE <<>>)
    ELSE <<line>>

RECURSIVE LinesCalls(_)
LinesCalls(lines) ==
    IF lines = <<>> THEN <<>>
    ELSE LineCalls(Head(lines)) \o LinesCalls(Tail(lines))

\* The write_all calls write makes on a scene, in order.
WriteAllCalls(self, checks) ==
    LinesCalls(ReadLines(Write(self, checks).out, <<>>))

\* WriteSink that drops the error of write_all and goes on.
WriteSinkIgnoresError(self, checks, k, p) ==
    LET w == Write(self, checks) IN
    [out |-> w.out, result |-> w.result, failed |-> k]

\* write on a sink whose k-th write_all fails after taking p chunks of it
\* (k = 0: no call fails): try! returns Err(Io(err)) at that call.
WriteSink(self, checks, k, p) ==
    LET w == Write(self, checks)
        calls == WriteAllCalls(self, checks)
    IN IF k = 0 THEN [out |-> w.out, result |-> w.result, failed |-> 0]
       ELSE [out |-> Flatten(SubSeq(calls, 1, k - 1))
                     \o SubSeq(calls[k], 1, p),
             result |-> Io, failed |-> k]

\* Input alphabet of the I/O specification.
IoLines ==
    { TextLine(<<T("v"), T("1."), T("0.5"), T("2")>>),
      TextLine(<<T("f"), T("1"), T("2"), T("3")>>),
      TextLine(<<T("o"), T("A")>>),
      TextLine(<<T("g"), T("a"), T("b")>>),
      TextLine(<<T("g")>>) }

LoadIoLine ==
    /\ Len(input) < MaxIoLines
    /\ \E line \in IoLines : LoadLine(line)

\* read_line returns Err: load returns the Io error.
ReadLineFails ==
    /\ ld.result = Running
    /\ ld' = ReadLineErr(ld)
    /\ input' = Append(input, IoError)
    /\ UNCHANGED <<overflow_checks, written, reload>>

\* data.write(&mut output) on a sink that may fail at any write_all.
WriteToSink ==
    /\ Returned(ld) # None
    /\ written = None
    /\ \E k \in 0..Len(WriteAllCalls(ld.data, overflow_checks)) :
         \E p \in 0..(IF k = 0 THEN 0
                      ELSE Len(WriteAllCalls(ld.data, overflow_checks)[k]) - 1) :
            written' = Some(WriteSink(Returned(ld)[1], overflow_checks, k, p))
    /\ UNCHANGED <<overflow_checks, input, ld, reload>>

NextIo == LoadIoLine \/ ReadLineFails \/ LoadEof \/ WriteToSink \/ Reload

\* Loads from a line source and writes to a byte sink that may fail.
SpecIo == Init /\ [][NextIo]_vars

\* ----------------------------------------------------------------- claims
\* What the input says, read off the lines themselves.
Toks(line) == SplitWhitespace(line)
IsDir(line, kw) == Toks(line) # <<>> /\ Toks(line)[1] = T(kw)
ArgSet(line) == {Toks(line)[k] : k \in 2..Len(Toks(line))}
Alive == ld.result.kind \in {"Running", "Ok"}
Range(s) == {s[k] : k \in 1..Len(s)}

\* C1: the reload of the written text succeeds and has the faces and the
\* objects of the loaded scene, in the same order, and the same vertices,
\* normals and texcoords; write itself succeeds on every loaded scene.
RoundTripFacesObjects ==
    /\ written # None => written[1].result = Ok
    /\ reload # None =>
        /\ reload[1].result = Ok
        /\ reload[1].data.faces = ld.data.faces
        /\ reload[1].data.objects = ld.data.objects
        /\ reload[1].data.vertices = ld.data.vertices
        /\ reload[1].data.normals = ld.data.normals
        /\ reload[1].data.texcoords = ld.data.texcoords

\* A reloaded scene with an unnamed object, an object whose name holds a
\* space, two faces (one with a wrapped index) and a vertex.
RoundTripWitness ==
    /\ reload # None
    /\ Len(ld.data.objects) = 2
    /\ ld.data.objects[1].name = <<>>
    /\ ld.data.objects[2].name = <<T("A"), SP, T("B")>>
    /\ Len(ld.data.faces) = 2
    /\ ld.data.faces[1][1][1] = UsizeMax
    /\ Len(ld.data.vertices) = 1

\* C2: the reload of the written text has the groups of the loaded scene:
\* the same names in the same order, each with the same set of faces.
RoundTripGroups ==
    reload # None => reload[1].data.groups = ld.data.groups

RECURSIVE FaceGroupNames(_, _)
\* For every f line of `lines`, in order, the set of the arguments of the
\* last g line before it (`cur`; empty when no g line precedes it).
FaceGroupNames(lines, cur) ==
    IF lines = <<>> THEN <<>>
    ELSE IF IsDir(Head(lines), "g")
    THEN FaceGroupNames(Tail(lines), ArgSet(Head(lines)))
    ELSE IF IsDir(Head(lines), "f")
    THEN <<cur>> \o FaceGroupNames(Tail(lines), cur)
    ELSE FaceGroupNames(Tail(lines), cur)

\* The arguments of the last g line of `lines`.
LastGroupNames(lines) ==
    IF \E k \in 1..Len(lines) : IsDir(lines[k], "g")
    THEN ArgSet(lines[CHOOSE k \in 1..Len(lines) :
                        /\ IsDir(lines[k], "g")
                        /\ \A m \in (k + 1)..Len(lines) : ~IsDir(lines[m], "g")])
    ELSE {}

\* One step of load keeps every group and its members; a member it adds is
\* the face parsed by this step, and the group it joins is named by the last
\* g line read before.
MembershipStep ==
    /\ Len(ld'.data.groups) >= Len(ld.data.groups)
    /\ \A j \in 1..Len(ld.data.groups) :
        /\ ld'.data.groups[j].name = ld.data.groups[j].name
        /\ ld.data.groups[j].indexes \subseteq ld'.data.groups[j].indexes
    /\ \A j \in 1..Len(ld'.data.groups) :
        LET before == IF j <= Len(ld.data.groups)
                      THEN ld.data.groups[j].indexes ELSE {}
            added == ld'.data.groups[j].indexes \ before
        IN added # {} =>
            /\ added = {Len(ld.data.faces)}
            /\ Len(ld'.data.faces) = Len(ld.data.faces) + 1
            /\ IsDir(input'[Len(input')], "f")
            /\ ld'.data.groups[j].name \in LastGroupNames(input)

\* Group G holds face i exactly when G's name is an argument of the last g
\* line before the f line of face i.
MembershipFinal ==
    Alive =>
        \A j \in 1..Len(ld.data.groups) :
            \A i \in 0..(Len(ld.data.faces) - 1) :
                i \in ld.data.groups[j].indexes
                    <=> ld.data.groups[j].name \in FaceGroupNames(input, {})[i + 1]

\* C3: group membership is additive and never retroactive: a step of load
\* removes no member, adds to a group only the face it parses and only if
\* the last g line names the group, and in the end a group holds a face
\* exactly when the last g line before that face names it.
GroupMembershipAdditive == [][MembershipStep /\ MembershipFinal']_vars

\* A load in which group a, named again by a later g line, holds a face
\* from before and a face from after it, while group b holds only the first.
GroupMembershipWitness ==
    /\ ld.result = Ok
    /\ Len(ld.data.groups) = 2
    /\ ld.data.groups[1].indexes = {0, 1}
    /\ ld.data.groups[2].indexes = {0}

RECURSIVE ConcatPrimitives(_)
ConcatPrimitives(objects) ==
    IF objects = <<>> THEN <<>>
    ELSE Head(objects).primitives \o ConcatPrimitives(Tail(objects))

\* C4: the objects partition the face list: the primitives of the objects,
\* concatenated in list order, are 0, 1, ..., faces.len()-1.
ObjectsPartitionFaces ==
    ConcatPrimitives(ld.data.objects)
        = [k \in 1..Len(ld.data.faces) |-> k - 1]

\* Three faces spread over an unnamed and a named object.
ObjectsPartitionWitness ==
    /\ Len(ld.data.faces) = 3
    /\ Len(ld.data.objects) = 2
    /\ ld.data.objects[1].primitives = <<0>>
    /\ ld.data.objects[2].primitives = <<1, 2>>

\* The name an o line gives: its text between "o " and the end of line.
NameOf(line) == SubSeq(line, 3, Len(line) - 1)

RECURSIVE ExpectedObjects(_, _, _)
\* The objects the input describes: every o line opens a new object, every
\* f line adds the next face to the object opened last, or to one unnamed
\* object when no o line came before (`faces` counts the f lines so far).
ExpectedObjects(lines, objects, faces) ==
    IF lines = <<>> THEN objects
    ELSE IF IsDir(Head(lines), "o")
    THEN ExpectedObjects(Tail(lines),
            Append(objects, [name |-> NameOf(Head(lines)), primitives |-> <<>>]),
            faces)
    ELSE IF IsDir(Head(lines), "f")
    THEN LET os == IF objects = <<>>
                   THEN <<[name |-> <<>>, primitives |-> <<>>]>>
                   ELSE objects
         IN ExpectedObjects(Tail(lines),
                [os EXCEPT ![Len(os)].primitives = Append(@, faces)],
                faces + 1)
    ELSE ExpectedObjects(Tail(lines), objects, faces)

\* C5: every face is appended to the object of the most recent o line, or,
\* when no o line precedes it, to the one unnamed object created by the
\* first such face.
FacesJoinOpenObject ==
    Alive => ld.data.objects = ExpectedObjects(input, <<>>, 0)

\* Two faces in the unnamed object, then an o line and a face in its object.
FacesJoinOpenObjectWitness ==
    /\ Len(ld.data.objects) = 2
    /\ ld.data.objects[1] = [name |-> <<>>, primitives |-> <<0, 1>>]
    /\ ld.data.objects[2] = [name |-> <<T("A")>>, primitives |-> <<2>>]

\* The arguments of all g lines of `lines`.
AllGroupNames(lines) ==
    UNION {IF IsDir(lines[k], "g") THEN ArgSet(lines[k]) ELSE {} :
           k \in 1..Len(lines)}

\* C6: no two groups have the same name: there is one group per name the g
\* lines have given, and the active groups are the groups the last g line
\* names, also when it names a group twice.
GroupNamesUnique ==
    /\ \A j, k \in 1..Len(ld.data.groups) :
        j # k => ld.data.groups[j].name # ld.data.groups[k].name
    /\ {ld.data.groups[j].name : j \in 1..Len(ld.data.groups)}
        = AllGroupNames(input)
    /\ {ld.data.groups[g + 1].name : g \in Range(ld.actif_groups)}
        = LastGroupNames(input)

\* `g a a` has been read after `g b`: group a exists once, is active twice.
GroupNamesUniqueWitness ==
    /\ Len(ld.data.groups) = 2
    /\ ld.data.groups[1].name = T("b")
    /\ ld.actif_groups = <<1, 1>>

ErrorKinds == {"InvalidLine", "WrongNumberOfArguments", "Parse"}
Last(s) == s[Len(s)]

\* The first character of the line is '#'.
IsCommentLine(line) == line[1][1] \in HashWords
HasTokens(line) == Toks(line) # <<>>

\* C7 as stated: the line number of an error is the number of lines before
\* the failing line, comment lines and lines without tokens not counted.
ErrorLineSkipsComments ==
    ld.result.kind \in ErrorKinds =>
        ld.result.line = Cardinality({k \in 1..(Len(input) - 1) :
             HasTokens(input[k]) /\ ~IsCommentLine(input[k])})

\* C7, amended: the line number of an error is the number of lines before
\* the failing line that hold at least one token, comment lines included;
\* only the lines without tokens are not counted.
ErrorLineCountsTokenLines ==
    ld.result.kind \in ErrorKinds =>
        ld.result.line = Cardinality({k \in 1..(Len(input) - 1) :
             HasTokens(input[k])})

\* An error at the third line, after a comment and a blank line: it carries 1.
ErrorLineWitness ==
    /\ ld.result.kind \in ErrorKinds
    /\ Len(input) = 3
    /\ IsCommentLine(input[1])
    /\ ~HasTokens(input[2])
    /\ ld.result.line = 1

\* A step of load that reads a comment line returns no error and leaves the
\* scene, the open object and the active groups as they were.
CommentStep ==
    (input' # input /\ IsCommentLine(Last(input'))) =>
        /\ ld'.result = Running
        /\ ld'.data = ld.data
        /\ ld'.obj = ld.obj
        /\ ld'.actif_groups = ld.actif_groups

\* C8: a line whose first character is # never produces an error and never
\* changes the scene, the open object or the active group set, whatever
\* lines precede it.
CommentsAreSkipped == [][CommentStep]_vars

\* What a line is by itself: "Running" for a comment line, a line without
\* tokens and a well-formed directive, the kind of its error otherwise.
IsolatedKind(line) ==
    IF IsCommentLine(line) \/ ~HasTokens(line) THEN "Running"
    ELSE ProcessLine(LoadInit, line, overflow_checks).result.kind

\* load has failed at the first malformed line of the input, with its kind,
\* or has not failed and the input has no malformed line.
FailsAtFirstMalformed ==
    /\ ld.result.kind \in ErrorKinds =>
        /\ \A k \in 1..(Len(input) - 1) : IsolatedKind(input[k]) = "Running"
        /\ IsolatedKind(Last(input)) = ld.result.kind
        /\ Returned(ld) = None
    /\ Alive => \A k \in 1..Len(input) : IsolatedKind(input[k]) = "Running"

\* C9: load returns the error of the first malformed line, reads no line
\* after it and returns no scene.
FirstFailureWins ==
    [][(ld.result # Running => UNCHANGED <<ld, input>>)
       /\ FailsAtFirstMalformed']_vars

\* No comment line of the input comes directly after a line without tokens.
NoCommentAfterBlank ==
    \A k \in 2..Len(input) :
        IsCommentLine(input[k]) => HasTokens(input[k - 1])

\* The statement of C9 on the inputs in which no comment line follows a line
\* without tokens.
FirstFailureWinsOtherwise == NoCommentAfterBlank => FailsAtFirstMalformed

AllFloats(args) == \A k \in 1..Len(args) : ParseF32(args[k]) # None
Values(args) == [k \in 1..Len(args) |-> ParseF32(args[k])[1]]
Rejected == /\ ld'.result = Err("WrongNumberOfArguments", ld.nb)
            /\ ld'.data = ld.data
Accepted(data) == ld'.result = Running /\ ld'.data = data

\* A step of load that reads a v, vn or vt line whose arguments are floats.
ArityStep ==
    input' # input =>
        LET line == Last(input')
            args == Tail(Toks(line))
            n == Len(args)
            x == Values(args)
        IN (HasTokens(line) /\ AllFloats(args)) =>
            /\ IsDir(line, "v") =>
                IF n = 4
                THEN Accepted([ld.data EXCEPT !.vertices =
                                  Append(@, <<x[1], x[2], x[3], x[4]>>)])
                ELSE IF n = 3
                THEN Accepted([ld.data EXCEPT !.vertices =
                                  Append(@, <<x[1], x[2], x[3], 10>>)])
                ELSE Rejected
            /\ IsDir(line, "vn") =>
                IF n = 3
                THEN Accepted([ld.data EXCEPT !.normals =
                                  Append(@, <<x[1], x[2], x[3]>>)])
                ELSE Rejected
            /\ IsDir(line, "vt") =>
                IF n \in {1, 2, 3}
                THEN Accepted([ld.data EXCEPT !.texcoords =
                                  Append(@, <<x[1],
                                              IF n >= 2 THEN x[2] ELSE 0,
                                              IF n = 3 THEN x[3] ELSE 0>>)])
                ELSE Rejected

\* C10: with float arguments, v appends a vertex iff it has 3 or 4 of them
\* (w = 1.0 when 3), vn a normal iff it has 3, vt a texcoord iff it has 1, 2
\* or 3 (the missing ones 0.0); any other count fails with
\* WrongNumberOfArguments and appends nothing.
ArityAndDefaults == [][ArityStep]_vars

\* A vertex from 3 arguments and a texcoord from 1, then a vn line with 2
\* arguments that has failed.
ArityWitness ==
    /\ ld.data.vertices = <<<<10, 5, 20, 10>>>>
    /\ ld.data.texcoords = <<<<5, 0, 0>>>>
    /\ IsDir(Last(input), "vn")
    /\ ld.result = Err("WrongNumberOfArguments", 2)

\* ------------------------------------------------------- claims C11 - C20
\* A step of load that reads a v, vn or vt line with an argument that is no
\* float fails with Parse at this line and appends nothing.
ParseFirstStep ==
    input' # input =>
        LET line == Last(input')
            args == Tail(Toks(line))
        IN (/\ IsDir(line, "v") \/ IsDir(line, "vn") \/ IsDir(line, "vt")
            /\ ~AllFloats(args)) =>
                /\ ld'.result = Err("Parse", ld.nb)
                /\ ld'.data = ld.data

\* C11: an argument of a v, vn or vt line that is not a valid float makes
\* load fail with Parse at that line, whatever the number of arguments.
ParseErrorPrecedence == [][ParseFirstStep]_vars

\* `vn -1d`, wrong in its count and in its argument, has failed with Parse.
ParseErrorWitness ==
    /\ input # <<>>
    /\ Last(input) = TextLine(<<T("vn"), T("-1d")>>)
    /\ ld.result.kind = "Parse"

\* The integer a slash-field writes, minus 1, when the field is present and
\* parses; None otherwise.
ExpectedOpt(index, k) ==
    IF Len(index) >= k /\ ParseUsize(index[k]) # None
    THEN Some(ParseUsize(index[k])[1] - 1)
    ELSE None

\* The vertex-reference an argument of an f line writes.
ExpectedRef(index) ==
    <<ParseUsize(index[1])[1] - 1, ExpectedOpt(index, 2), ExpectedOpt(index, 3)>>

\* The argument has 1 to 3 slash-fields and its first field is an integer.
WellFormedArg(index) ==
    Len(index) \in 1..3 /\ ParseUsize(index[1]) # None

\* No slash-field of the arguments is the integer 0.
NoZeroField(args) ==
    \A k \in 1..Len(args) : \A m \in 1..Len(args[k]) :
        ParseUsize(args[k][m]) # Some(0)

\* The effect C12 gives to an f line with the arguments `args`.
FaceAppended(args) ==
    /\ ld'.result = Running
    /\ ld'.data.faces =
          Append(ld.data.faces, [k \in 1..Len(args) |-> ExpectedRef(args[k])])

\* A step of load that reads an f line with 3 or more well-formed arguments.
FaceParsingStep ==
    input' # input =>
        LET line == Last(input')
            args == Tail(Toks(line))
        IN (/\ IsDir(line, "f")
            /\ Len(args) >= 3
            /\ \A k \in 1..Len(args) : WellFormedArg(args[k])) =>
                FaceAppended(args)

\* C12: an f line with at least 3 arguments, each of 1 to 3 slash-fields
\* with an integer first field, always succeeds and appends the face whose
\* references are the written integers minus 1, an absent, empty or
\* unparsable second or third field giving None.
FaceReferenceParsing == [][FaceParsingStep]_vars

\* The statement of C12 on the f lines none of whose fields is 0.
FaceReferenceParsingOtherwise ==
    [][input' # input =>
        LET line == Last(input')
            args == Tail(Toks(line))
        IN (/\ IsDir(line, "f")
            /\ Len(args) >= 3
            /\ \A k \in 1..Len(args) : WellFormedArg(args[k])
            /\ NoZeroField(args)) =>
                FaceAppended(args)]_vars

\* The f lines among `lines`, in order.
FLines(lines) == SelectSeq(lines, LAMBDA l : IsDir(l, "f"))

\* The vertex-references the arguments of an f line write.
ExpectedFace(line) ==
    [k \in 1..(Len(Toks(line)) - 1) |-> ExpectedRef(Toks(line)[k + 1])]

\* C14: every stored index of a loaded scene is the integer of the text
\* minus 1, without underflow or wraparound, and write emits the stored
\* index plus 1, the integer of the text.
IndexBaseNeverWraps ==
    /\ Alive =>
        \A i \in 1..Len(ld.data.faces) :
            ld.data.faces[i] = ExpectedFace(FLines(input)[i])
    /\ (written # None /\ written[1].result = Ok) =>
        LET outLines == FLines(ReadLines(written[1].out, <<>>)) IN
        /\ Len(outLines) = Len(ld.data.faces)
        /\ \A i \in 1..Len(outLines) :
            ExpectedFace(outLines[i]) = ExpectedFace(FLines(input)[i])

\* The statement of C14 on the inputs none of whose f lines has a 0 field.
IndexBaseNeverWrapsOtherwise ==
    (\A i \in 1..Len(input) :
        IsDir(input[i], "f") => NoZeroField(Tail(Toks(input[i]))))
    => IndexBaseNeverWraps

\* What C13 says of an f line with the arguments `args`: too few arguments
\* or an argument of more than 3 slash-fields give WrongNumberOfArguments,
\* a first field that is no integer gives Parse (either of the two when the
\* line has both faults), and no face is appended.
FaceRejected(args) ==
    LET tooMany == \E k \in 1..Len(args) : Len(args[k]) > 3
        badFirst == \E k \in 1..Len(args) : ParseUsize(args[k][1]) = None
    IN /\ Len(args) < 3 => Rejected
       /\ (Len(args) >= 3 /\ tooMany /\ ~badFirst) => Rejected
       /\ (Len(args) >= 3 /\ badFirst /\ ~tooMany) =>
            /\ ld'.result = Err("Parse", ld.nb)
            /\ ld'.data = ld.data
       /\ (Len(args) >= 3 /\ badFirst /\ tooMany) =>
            /\ ld'.result.kind \in {"WrongNumberOfArguments", "Parse"}
            /\ ld'.result.line = ld.nb
            /\ ld'.data = ld.data

\* Every face has at least 3 vertex-references.
FacesHaveThreeRefs ==
    \A i \in 1..Len(ld.data.faces) : Len(ld.data.faces[i]) >= 3

\* C13: an f line with fewer than 3 arguments or with an argument of more
\* than 3 slash-fields fails with WrongNumberOfArguments, one with a first
\* field that is no integer fails with Parse; no face is appended, so every
\* face has at least 3 vertex-references.
FaceErrors ==
    [][/\ input' # input =>
            LET line == Last(input') IN
            IsDir(line, "f") => FaceRejected(Tail(Toks(line)))
       /\ FacesHaveThreeRefs']_vars

\* The statement of C13 on the f lines none of whose fields is 0.
FaceErrorsOtherwise ==
    [][/\ input' # input =>
            LET line == Last(input') IN
            (IsDir(line, "f") /\ NoZeroField(Tail(Toks(line)))) =>
                FaceRejected(Tail(Toks(line)))
       /\ FacesHaveThreeRefs']_vars

\* The identifiers load knows.
Directives == {T("v"), T("vn"), T("vt"), T("s"), T("f"), T("o"), T("g")}

\* The line is no comment and its first token is no directive.
IsUnknownDirective(line) ==
    /\ ~IsCommentLine(line)
    /\ HasTokens(line)
    /\ Toks(line)[1] \notin Directives

\* C15: a step of load that reads a non-comment line whose first token is
\* not exactly one of v, vn, vt, s, f, o, g fails with InvalidLine carrying
\* the line counter of that line, whatever the arguments of the line are,
\* and leaves the scene as it was.
UnknownDirective ==
    [][(input' # input /\ IsUnknownDirective(Last(input'))) =>
            /\ ld'.result = Err("InvalidLine", ld.nb)
            /\ ld'.data = ld.data]_vars

\* `vv -1d 1` as the second line, after a line that was counted: its
\* arguments are no numbers and load fails with InvalidLine(1).
UnknownDirectiveWitness ==
    /\ Len(input) = 2
    /\ input[2] = TextLine(<<T("vv"), T("-1d"), T("1")>>)
    /\ ld.result = Err("InvalidLine", 1)

\* The object name C16 describes: the arguments with one space between them.
ExpectedName(args) ==
    [k \in 1..(2 * Len(args) - 1) |->
        IF k % 2 = 1 THEN args[(k + 1) \div 2] ELSE SP]

\* C16: a step of load that reads an o line without arguments fails with
\* WrongNumberOfArguments and appends no object; one that reads an o line
\* with arguments appends exactly one object, named by the arguments joined
\* by single spaces and without primitives, and makes it the open object.
ObjectDirective ==
    [][(input' # input /\ IsDir(Last(input'), "o")) =>
            LET args == Tail(Toks(Last(input'))) IN
            IF args = <<>> THEN Rejected
            ELSE /\ ld'.result = Running
                 /\ ld'.data =
                        [ld.data EXCEPT !.objects =
                            Append(@, [name |-> ExpectedName(args),
                                       primitives |-> <<>>])]
                 /\ ld'.obj = Some(Len(ld.data.objects))]_vars

\* `o A` then `o A  B`: the second object is named "A B" and is the open one.
ObjectDirectiveWitness ==
    /\ Len(input) = 2
    /\ Len(ld.data.objects) = 2
    /\ ld.data.objects[2] = [name |-> <<T("A"), SP, T("B")>>,
                             primitives |-> <<>>]
    /\ ld.obj = Some(1)

\* The lines of the text write produced.
WrittenLines == ReadLines(written[1].out, <<>>)

RECURSIVE ObjectSkeleton(_)
\* The o and f lines of a text, in order: an o line as <<o>> \o its name,
\* an f line as <<f>>.
ObjectSkeleton(lines) ==
    IF lines = <<>> THEN <<>>
    ELSE LET l == Head(lines)
             e == IF l[1] = T("o")
                  THEN <<<<T("o")>> \o SubSeq(l, 3, Len(l) - 1)>>
                  ELSE IF l[1] = T("f") THEN <<<<T("f")>>>>
                  ELSE <<>>
         IN e \o ObjectSkeleton(Tail(lines))

RECURSIVE ExpectedObjectSkeleton(_)
\* What C17 expects of the objects of a scene: per object, in list order,
\* its o line when its name is not empty, then one f line per primitive.
ExpectedObjectSkeleton(objects) ==
    IF objects = <<>> THEN <<>>
    ELSE LET o == Head(objects) IN
         (IF o.name # <<>> THEN <<<<T("o")>> \o o.name>> ELSE <<>>)
         \o [k \in 1..Len(o.primitives) |-> <<T("f")>>]
         \o ExpectedObjectSkeleton(Tail(objects))

\* C17: write emits exactly one `o <name>` line for each object whose name
\* is not empty, in object list order and before the f lines of that object
\* (also when the object has no faces), and no o line for an object whose
\* name is empty.
SerializerObjectLines ==
    (written # None /\ written[1].result = Ok) =>
        ObjectSkeleton(WrittenLines) = ExpectedObjectSkeleton(ld.data.objects)

\* A written scene of three objects: the unnamed one with a face, a named
\* one without faces, a named one with a face.
SerializerObjectLinesWitness ==
    /\ written # None
    /\ written[1].result = Ok
    /\ Len(ld.data.objects) = 3
    /\ ld.data.objects[1].name = <<>>
    /\ ld.data.objects[1].primitives # <<>>
    /\ ld.data.objects[2].primitives = <<>>
    /\ ld.data.objects[3].primitives # <<>>

RECURSIVE GroupSkeleton(_)
\* The g and f lines of a text, in order: a g line whole, an f line as <<f>>.
GroupSkeleton(lines) ==
    IF lines = <<>> THEN <<>>
    ELSE LET l == Head(lines)
             e == IF l[1] = T("g") THEN <<l>>
                  ELSE IF l[1] = T("f") THEN <<<<T("f")>>>>
                  ELSE <<>>
         IN e \o GroupSkeleton(Tail(lines))

\* The faces of a scene in the order write emits them.
EmissionOrder(objects) == ConcatPrimitives(objects)

\* The positions in the group list of the groups that contain face i.
MembersOf(groups, i) == {j \in 1..Len(groups) : i \in groups[j].indexes}

RECURSIVE NamesInListOrder(_, _, _)
\* The names of the groups at the positions of m, from position j on.
NamesInListOrder(groups, m, j) ==
    IF j > Len(groups) THEN <<>>
    ELSE (IF j \in m THEN <<groups[j].name>> ELSE <<>>)
         \o NamesInListOrder(groups, m, j + 1)

RECURSIVE ExpectedGroupSkeleton(_, _, _)
\* What C18 expects: one active set, carried from face to face; a g line
\* with the names of the face's groups when they differ from the active set.
ExpectedGroupSkeleton(groups, faces, active) ==
    IF faces = <<>> THEN <<>>
    ELSE LET m == MembersOf(groups, Head(faces)) IN
         (IF m # active
          THEN <<TextLine(<<T("g")>> \o NamesInListOrder(groups, m, 1))>>
          ELSE <<>>)
         \o <<<<T("f")>>>>
         \o ExpectedGroupSkeleton(groups, Tail(faces), m)

\* C18: write keeps one active membership set, empty at first and not reset
\* at an object boundary; a g line stands immediately before the f line of a
\* face if and only if the set of groups holding that face differs from the
\* active set, lists those groups in group list order (a bare `g` for the
\* empty set), and the active set becomes that set.
SerializerGroupLines ==
    (written # None /\ written[1].result = Ok) =>
        /\ GroupSkeleton(WrittenLines) =
             ExpectedGroupSkeleton(ld.data.groups,
                                   EmissionOrder(ld.data.objects), {})
        /\ \A k \in 1..Len(WrittenLines) :
             WrittenLines[k][1] = T("g") =>
                /\ k < Len(WrittenLines)
                /\ WrittenLines[k + 1][1] = T("f")

\* Two faces of the same group in two objects: the text written has one
\* g line and two f lines, with the o line of the second object in between.
SerializerGroupLinesWitness ==
    /\ written # None
    /\ written[1].result = Ok
    /\ Len(ld.data.objects) = 2
    /\ Len(ld.data.faces) = 2
    /\ ld.data.objects[2].primitives = <<1>>
    /\ MembersOf(ld.data.groups, 0) = {1}
    /\ MembersOf(ld.data.groups, 1) = {1}
    /\ Len(GroupSkeleton(WrittenLines)) = 3

\* The line is a g line without arguments.
IsBareG(line) == IsDir(line, "g") /\ Len(Toks(line)) = 1

\* The last g line read so far is a bare one.
LastGIsBare ==
    \E k \in 1..Len(input) :
        /\ IsBareG(input[k])
        /\ \A n \in (k + 1)..Len(input) : ~IsDir(input[n], "g")

\* C20: a step of load that reads a g line without arguments does not fail,
\* leaves the scene (so the group list) as it was and empties the active
\* group set; a face parsed while the last g line is a bare one is inserted
\* into no group.
BareGroupDirective ==
    [][/\ (input' # input /\ IsBareG(Last(input'))) =>
            /\ ld'.result = Running
            /\ ld'.data = ld.data
            /\ ld'.actif_groups = <<>>
       /\ (input' # input /\ IsDir(Last(input'), "f") /\ LastGIsBare
             /\ ld'.result = Running) =>
            /\ ld'.data.groups = ld.data.groups
            /\ MembersOf(ld'.data.groups, Len(ld'.data.faces) - 1) = {}]_vars

\* `g a`, a face, `g`, a face: the first face is in group a, the second,
\* parsed after the bare g, is in no group.
BareGroupDirectiveWitness ==
    /\ Len(input) = 4
    /\ IsBareG(input[3])
    /\ IsDir(input[4], "f")
    /\ Len(ld.data.faces) = 2
    /\ MembersOf(ld.data.groups, 0) = {1}
    /\ MembersOf(ld.data.groups, 1) = {}

\* The lines of a text that start with the keyword kw, in order.
LinesOf(lines, kw) == SelectSeq(lines, LAMBDA l : l[1] = T(kw))

\* The line `kw x y ..` that prints one tuple of floats.
ExpectedFloatLine(kw, t) ==
    TextLine(<<T(kw)>> \o [k \in 1..Len(t) |-> FormatF32(t[k])])

\* The text of an optional index: empty for None, the index plus one.
ExpectedOptText(o) == IF o = None THEN "" ELSE DecStr[o[1] + 2]

\* The f line that prints one face.
ExpectedFaceLine(face) ==
    TextLine(<<T("f")>> \o
             [k \in 1..Len(face) |->
                <<DecStr[face[k][1] + 2], ExpectedOptText(face[k][2]),
                  ExpectedOptText(face[k][3])>>])

\* The place of a line in the order of emission: v, then vn, then vt, then
\* the o, g and f lines.
Rank(line) ==
    CASE line[1] = T("v") -> 0
      [] line[1] = T("vn") -> 1
      [] line[1] = T("vt") -> 2
      [] OTHER -> 3

\* C19: the text write produces holds one v line per vertex in list order,
\* then one vn line per normal in list order, then one vt line per texcoord
\* in list order, then the o, g and f lines; no v, vn or vt line follows an
\* o, g or f line, and the f lines follow the primitives of the objects.
EmissionOrderOfWrite ==
    (written # None /\ written[1].result = Ok) =>
        /\ LinesOf(WrittenLines, "v") =
             [i \in 1..Len(ld.data.vertices) |->
                ExpectedFloatLine("v", ld.data.vertices[i])]
        /\ LinesOf(WrittenLines, "vn") =
             [i \in 1..Len(ld.data.normals) |->
                ExpectedFloatLine("vn", ld.data.normals[i])]
        /\ LinesOf(WrittenLines, "vt") =
             [i \in 1..Len(ld.data.texcoords) |->
                ExpectedFloatLine("vt", ld.data.texcoords[i])]
        /\ \A j, k \in 1..Len(WrittenLines) :
             j < k => Rank(WrittenLines[j]) <= Rank(WrittenLines[k])
        /\ \A k \in 1..Len(WrittenLines) :
             WrittenLines[k][1] \in {T("v"), T("vn"), T("vt"),
                                     T("o"), T("g"), T("f")}
        /\ LinesOf(WrittenLines, "f") =
             [k \in 1..Len(EmissionOrder(ld.data.objects)) |->
                ExpectedFaceLine(
                    ld.data.faces[EmissionOrder(ld.data.objects)[k] + 1])]

\* A text read in the order f, vt, vn, v is written in the order v, vn, vt, f.
EmissionOrderOfWriteWitness ==
    /\ Len(input) = 4
    /\ IsDir(input[1], "f")
    /\ IsDir(input[2], "vt")
    /\ IsDir(input[3], "vn")
    /\ IsDir(input[4], "v")
    /\ written # None
    /\ written[1].result = Ok
    /\ Len(WrittenLines) = 4
    /\ WrittenLines[1][1] = T("v")
    /\ WrittenLines[2][1] = T("vn")
    /\ WrittenLines[3][1] = T("vt")
    /\ WrittenLines[4][1] = T("f")

\* ------------------------------------------------------- claims C21 - C26
\* The bytes the first n write_all calls of `calls` emit.
BytesOfCalls(calls, n) == Flatten(SubSeq(calls, 1, n))

\* C21: when read_line fails, load returns the Io error at that step without
\* processing anything, reads no further line and returns no scene; when a
\* write_all of write fails, write returns the Io error at that call: the
\* text emitted is the text of the calls before it and at most a part of the
\* failing call, and nothing is emitted afterwards.
IoFailuresAbort ==
    [][/\ (input' # input /\ Last(input') = IoError) =>
            /\ ld'.result = Io
            /\ Returned(ld') = None
            /\ ld'.data = ld.data
            /\ ld'.nb = ld.nb
       /\ ld.result = Io =>
            /\ ld' = ld
            /\ input' = input
            /\ written' = None
       /\ (written' # written /\ written'[1].failed # 0) =>
            LET calls == WriteAllCalls(ld.data, overflow_checks)
                full == Write(ld.data, overflow_checks).out
                k == written'[1].failed
                out == written'[1].out
            IN /\ written'[1].result = Io
               /\ Len(out) >= Len(BytesOfCalls(calls, k - 1))
               /\ Len(out) < Len(BytesOfCalls(calls, k))
               /\ out = SubSeq(full, 1, Len(out))
       /\ (written # None /\ written[1].result = Io) =>
            /\ written' = written
            /\ reload' = None]_vars

\* The sink fails at the " " that follows the "g" of a g line, after a v line
\* and the "g" were emitted: write returned Io and the text ends with "g".
IoFailuresAbortWitness ==
    /\ written # None
    /\ written[1].result = Io
    /\ Len(written[1].out) > 1
    /\ written[1].out[1] = T("v")
    /\ Last(written[1].out) = T("g")

\* f32 == f32: a NaN is equal to nothing, itself included.
F32Eq(a, b) == a # NaN /\ b # NaN /\ a = b

\* == on two lists of tuples of floats.
FloatsEq(s, t) ==
    /\ Len(s) = Len(t)
    /\ \A i \in 1..Len(s) : \A k \in 1..Len(s[i]) : F32Eq(s[i][k], t[i][k])

\* The scene S2 = load(write(S)) and the load of the text write makes of it.
S2 == reload[1].data
SecondWrite == Write(S2, overflow_checks)
SecondLoad ==
    LoadText(LoadInit, ReadLines(SecondWrite.out, <<>>), overflow_checks)

\* The second pass succeeds and keeps faces, objects and groups.
SecondPassKeepsStructure ==
    /\ SecondWrite.result = Ok
    /\ SecondLoad.result = Ok
    /\ SecondLoad.data.faces = S2.faces
    /\ SecondLoad.data.objects = S2.objects
    /\ SecondLoad.data.groups = S2.groups

\* C22 as stated: for S2 = load(write(S)), load(write(S2)) succeeds and is
\* equal to S2 in vertices, normals, texcoords, faces, objects and groups.
RoundTripStable ==
    (reload # None /\ reload[1].result = Ok) =>
        /\ SecondPassKeepsStructure
        /\ FloatsEq(SecondLoad.data.vertices, S2.vertices)
        /\ FloatsEq(SecondLoad.data.normals, S2.normals)
        /\ FloatsEq(SecondLoad.data.texcoords, S2.texcoords)

\* C22, amended: for S2 = load(write(S)), load(write(S2)) succeeds and has
\* the faces, objects and groups of S2 and the same vertices, normals and
\* texcoords coordinate by coordinate, a NaN of S2 being a NaN of the result
\* (which == does not hold equal); without a NaN the two scenes are equal.
RoundTripStableUpToNaN ==
    (reload # None /\ reload[1].result = Ok) =>
        /\ SecondPassKeepsStructure
        /\ SecondLoad.data.vertices = S2.vertices
        /\ SecondLoad.data.normals = S2.normals
        /\ SecondLoad.data.texcoords = S2.texcoords
        /\ (\A i \in 1..Len(S2.vertices) : \A k \in 1..4 :
               S2.vertices[i][k] # NaN) =>
             FloatsEq(SecondLoad.data.vertices, S2.vertices)

\* A reloaded scene of two faces whose groups are not in the order of the
\* scene loaded first (b before a there, a before b here).
RoundTripStableWitness ==
    /\ reload # None
    /\ reload[1].result = Ok
    /\ Len(ld.data.groups) = 2
    /\ ld.data.groups[1].name = T("a")
    /\ Len(S2.groups) = 2
    /\ S2.groups[1].name = T("b")
    /\ S2.groups[2].indexes = {1}
    /\ Len(S2.faces) = 2

\* The names of the groups that hold face i.
GroupNamesOfFace(groups, i) ==
    {groups[j].name : j \in MembersOf(groups, i)}

\* C23: a step of load that reads an o line leaves the active group set and
\* every group as they were, and the face of a later f line still joins the
\* groups named by the last g line; a step that reads a g line leaves the
\* open object and every object as they were; a step that reads a v, vn, vt
\* or s line leaves faces, objects, groups, the open object and the active
\* group set as they were.
ObjectAndGroupIndependent ==
    [][input' # input =>
        LET line == Last(input') IN
        /\ IsDir(line, "o") =>
            /\ ld'.actif_groups = ld.actif_groups
            /\ ld'.data.groups = ld.data.groups
        /\ (IsDir(line, "f") /\ ld'.result = Running) =>
            GroupNamesOfFace(ld'.data.groups, Len(ld.data.faces))
                = LastGroupNames(input)
        /\ IsDir(line, "g") =>
            /\ ld'.obj = ld.obj
            /\ ld'.data.objects = ld.data.objects
        /\ (IsDir(line, "v") \/ IsDir(line, "vn") \/ IsDir(line, "vt")
              \/ IsDir(line, "s")) =>
            /\ ld'.data.faces = ld.data.faces
            /\ ld'.data.objects = ld.data.objects
            /\ ld'.data.groups = ld.data.groups
            /\ ld'.obj = ld.obj
            /\ ld'.actif_groups = ld.actif_groups]_vars

\* `g a`, `o A`, `f 1 2 3`: the face is in the object A and in the group a.
ObjectAndGroupIndependentWitness ==
    /\ Len(input) = 3
    /\ IsDir(input[1], "g")
    /\ IsDir(input[2], "o")
    /\ IsDir(input[3], "f")
    /\ ld.data.objects = <<[name |-> <<T("A")>>, primitives |-> <<0>>]>>
    /\ ld.data.groups = <<[name |-> T("a"), indexes |-> {0}]>>

\* The positions of the o lines and of the f lines of the input.
OLines == {k \in 1..Len(input) : IsDir(input[k], "o")}
FLinesOfInput == {k \in 1..Len(input) : IsDir(input[k], "f")}

\* An f line stands before every o line (so also when there is no o line).
FaceBeforeFirstO ==
    \E k \in FLinesOfInput : \A m \in OLines : k < m

\* C24: every successful o line appends a new object, also when an object
\* of that name exists; after a successful load the number of objects is
\* the number of o lines, plus one when a face precedes the first o line (or
\* there is a face and no o line); the objects before the last one never
\* change.
ObjectsNeverReopened ==
    [][/\ (input' # input /\ IsDir(Last(input'), "o")
             /\ ld'.result = Running) =>
            /\ Len(ld'.data.objects) = Len(ld.data.objects) + 1
            /\ ld'.obj = Some(Len(ld.data.objects))
       /\ Len(ld'.data.objects) >= Len(ld.data.objects)
       /\ \A j \in 1..(Len(ld.data.objects) - 1) :
            ld'.data.objects[j] = ld.data.objects[j]
       /\ (\A j \in 1..Len(ld.data.objects) :
             j < Len(ld'.data.objects) =>
                ld'.data.objects[j] = ld.data.objects[j])
       /\ ld'.result = Ok =>
            Len(ld'.data.objects) =
                Cardinality(OLines') + (IF FaceBeforeFirstO' THEN 1 ELSE 0)]_vars

\* `o A`, a face, `o A` again, a face: two objects named A, one face each.
ObjectsNeverReopenedWitness ==
    /\ ld.result = Ok
    /\ Len(input) = 4
    /\ ld.data.objects = <<[name |-> <<T("A")>>, primitives |-> <<0>>],
                           [name |-> <<T("A")>>, primitives |-> <<1>>]>>

\* The positions of the objects that have the empty name.
UnnamedObjects ==
    {j \in 1..Len(ld.data.objects) : ld.data.objects[j].name = <<>>}

\* C25: in every state of load at most one object has the empty name; it is
\* then the first object, it holds at least one primitive, the first of
\* which is face 0, and an f line stands before every o line of the input,
\* where every such f line is one load accepts.
UnnamedObjectIsFirst ==
    /\ UnnamedObjects \subseteq {1}
    /\ UnnamedObjects # {} =>
        /\ ld.data.objects[1].primitives # <<>>
        /\ ld.data.objects[1].primitives[1] = 0
        /\ FaceBeforeFirstO
        /\ \A k \in FLinesOfInput : \A m \in OLines :
             k < m => IsolatedKind(input[k]) = "Running"

\* Two faces, `o A`, a face: the unnamed object is the first of two objects
\* and holds the two faces read before the o line.
UnnamedObjectIsFirstWitness ==
    /\ Len(input) = 4
    /\ Len(ld.data.objects) = 2
    /\ ld.data.objects[1] = [name |-> <<>>, primitives |-> <<0, 1>>]
    /\ ld.data.objects[2].primitives = <<2>>

\* The argument has more than 3 slash-fields, or a first field that is no
\* integer.
FaultyArg(arg) == Len(arg) > 3 \/ ParseUsize(arg[1]) = None

\* The positions of the faulty arguments.
FaultyArgs(args) == {k \in 1..Len(args) : FaultyArg(args[k])}

\* The leftmost faulty argument.
LeftmostFaulty(args) ==
    CHOOSE k \in FaultyArgs(args) : \A m \in FaultyArgs(args) : k <= m

\* The error C26 names for a faulty argument: the number of fields is
\* checked before the first field is parsed.
ErrorOfArg(arg) == IF Len(arg) > 3 THEN "WrongNumberOfArguments" ELSE "Parse"

\* What C26 says of an f line with the arguments `args`.
FaceChecksInOrder(args) ==
    /\ Len(args) < 3 => Rejected
    /\ (Len(args) >= 3 /\ FaultyArgs(args) # {}) =>
         /\ ld'.result = Err(ErrorOfArg(args[LeftmostFaulty(args)]), ld.nb)
         /\ ld'.data = ld.data

\* Some field of an argument to the left of position k is 0.
ZeroFieldBefore(args, k) ==
    \E m \in 1..(k - 1) : \E n \in 1..Len(args[m]) :
        ParseUsize(args[m][n]) = Some(0)

\* C26: an f line with fewer than 3 arguments fails with
\* WrongNumberOfArguments, whatever its arguments are; with 3 or more
\* arguments the error returned is that of the leftmost faulty argument,
\* WrongNumberOfArguments when it has more than 3 slash-fields (also when its
\* first field is no integer) and Parse otherwise.
FaceCheckOrder ==
    [][(input' # input /\ IsDir(Last(input'), "f")) =>
            FaceChecksInOrder(Tail(Toks(Last(input'))))]_vars

\* The statement of C26 on the f lines that have no 0 field to the left of
\* their leftmost faulty argument.
FaceCheckOrderOtherwise ==
    [][(input' # input /\ IsDir(Last(input'), "f")) =>
            LET args == Tail(Toks(Last(input'))) IN
            (Len(args) >= 3 /\ FaultyArgs(args) # {}
               /\ ZeroFieldBefore(args, LeftmostFaulty(args)))
            \/ FaceChecksInOrder(args)]_vars

====
